---- MODULE Spec2Model ----
(***************************************************************************)
(* A model of the crawl/ingestion pipeline of the HN RAG repository:       *)
(*   app/crawler/crawler.py   HNCrawler.crawl, the stage orchestrator      *)
(*   app/crawler/storage.py   the three persisted JSON files               *)
(*   app/crawler/hn_api.py    the feed client                              *)
(*   app/crawler/parser.py    the comment tree walker                      *)
(*   app/crawler/fetcher.py   the content fetcher                          *)
(*   app/crawler/classifier.py the topic classifier                        *)
(* Spec        : one run of HNCrawler.crawl over the persisted files.      *)
(* SpecRuns    : several calls of crawl() on one HNCrawler instance.       *)
(* SpecWalk    : one CommentParser.parse_comment_tree walk over a tree.    *)
(* SpecFetch   : one request of the feed client or of the content fetcher. *)
(* SpecClassify: one call of ArticleClassifier.classify_article.           *)
(* SpecPrepare : one call of prepare_article_for_storage.                  *)
(* SpecTrigger : one request to POST /crawl/trigger and its subprocess.    *)
(* SpecOverlap : save_articles of two crawler processes on one store.      *)
(* SpecLive    : Spec, every call of a run returning or timing out.        *)
(* SpecFetchLive: SpecFetch, every attempt returning or timing out.        *)
(***************************************************************************)
EXTENDS Integers, Sequences, FiniteSets, TLC

(***************************************************************************)
(* Bounds of the model.                                                    *)
(***************************************************************************)
MaxId == 2
MaxFeed == 2
MaxPrior == 1
MaxFaults == 1
MaxCommentCount == 1
MaxKids == 3
MaxScore == 2
MaxTopCfg == 3
MaxRepliesCfg == 2
MaxRetriesCfg == 3
MaxTags == 4
MaxRuns == 2
MaxFeedRuns == 1
MaxAround == 25
MaxSeed == 2

Ids == 1..MaxId

VARIABLES
    pc,               \* position of the run inside HNCrawler.crawl
    skip_existing,    \* argument of crawl()
    enable_classification, \* HNCrawler.enable_classification
    story_ids,        \* crawl(): story_ids after step 2
    stories,          \* crawl(): the batch, one record per story
    tasks,            \* asyncio.gather: status of each task of the stage
    stats,            \* HNCrawler.stats
    outcome,          \* how the last call of crawl() ended
    returned,         \* the value crawl() returned
    articlesFile,     \* data/articles.json
    idsFile,          \* data/crawled_ids.json
    failedFile,       \* data/failed_items.json
    hist,             \* history of the current run, for stating the claims
    wpc,              \* position inside CommentParser.parse_comment_tree
    parser,           \* CommentParser: max_top_comments, max_replies, high_score_threshold
    kid_ids,          \* story.get("kids", [])
    inflight,         \* item fetches of the walk in flight
    fetched,          \* every item id the walk has asked the feed for
    fetchedTop,       \* the top-level comments the feed returned, in fetch order
    fetchedReplies,   \* per awaited parent: its id and the replies the feed returned
    top_comments,     \* parse_comment_tree: top_comments
    idx,              \* index in top_comments of the comment whose replies are awaited
    formatted_lines,  \* parse_comment_tree: formatted_lines
    high_score_comments, \* parse_comment_tree: high_score_comments
    comment_count     \* result["comment_count"], -1 until the walk returns

pipeVars == <<pc, skip_existing, enable_classification, story_ids, stories, tasks,
              stats, outcome, returned, articlesFile, idsFile, failedFile, hist>>

walkVars == <<wpc, parser, kid_ids, inflight, fetched, fetchedTop, fetchedReplies,
              top_comments,
              idx, formatted_lines, high_score_comments, comment_count>>

VARIABLES
    fpc,              \* position inside the request: idle, attempt, sleep, done
    fclient,          \* "feed" (_fetch_with_retry) or "content" (fetch_article_data)
    furl,             \* story.get("url", "") of the content fetcher
    fmax,             \* self.max_retries
    attempt,          \* the loop variable of for attempt in range(self.max_retries)
    calls,            \* the responses of the network calls made, in order
    sleeps,           \* the backoff sleeps taken: after which call, how long
    fresult,          \* what the request returned
    cpc,              \* position inside classify_article: idle, called, done
    topics,           \* ArticleClassifier.topics, the configured TOPICS
    carticle,         \* the article handed to classify_article
    llm_responses,    \* what each call of self.llm.ainvoke produced
    cresult,          \* what classify_article returned
    ppc,              \* position of prepare_article_for_storage: idle, done
    particle,         \* the article handed to prepare_article_for_storage
    stored,           \* the record prepare_article_for_storage returned
    runs,             \* number of calls of crawl() on this HNCrawler instance
    tpc,              \* position of a request to POST /crawl/trigger
    request,          \* the CrawlRequest of the trigger endpoint
    argv,             \* the arguments of the crawler subprocess
    saving            \* the calls of save_articles of processes sharing the store

fetchVars == <<fpc, fclient, furl, fmax, attempt, calls, sleeps, fresult>>

clsVars == <<cpc, topics, carticle, llm_responses, cresult>>

prepVars == <<ppc, particle, stored>>

trigVars == <<tpc, request, argv>>

unitVars == <<fetchVars, clsVars, prepVars, runs, trigVars, saving>>

vars == <<pipeVars, walkVars, unitVars>>

(***************************************************************************)
(* Sequences helpers.                                                      *)
(***************************************************************************)
Range(s) == {s[i] : i \in DOMAIN s}

SeqsUpTo(S, n) == UNION {[1..k -> S] : k \in 0..n}

RECURSIVE SumSeq(_)
SumSeq(s) == IF s = <<>> THEN 0 ELSE Head(s) + SumSeq(Tail(s))

CountIf(s, P(_)) == Cardinality({i \in DOMAIN s : P(s[i])})

(***************************************************************************)
(* storage.py: a persisted file is missing, a valid JSON document, or a    *)
(* truncated/partial one (open(..., "w") truncates before json.dump).      *)
(***************************************************************************)
MissingFile(empty) == [state |-> "missing", data |-> empty]
ValidFile(d) == [state |-> "valid", data |-> d]
PartialFile(empty) == [state |-> "partial", data |-> empty]

\* outcomes of one open(...,"w") + json.dump
WriteFaults == {"ok", "fail_open", "fail_mid", "kill"}

\* the file after one write attempt of document d
WriteFile(f, d, empty, w) ==
    CASE w = "ok" -> ValidFile(d)
      [] w = "fail_open" -> f
      [] OTHER -> PartialFile(empty)

\* a load that never finds the file
LoadCrawledIds_Empty(f) == {}

\* load_crawled_ids
LoadCrawledIds(f) == IF f.state = "valid" THEN f.data ELSE {}

\* load_articles
LoadArticles(f) == IF f.state = "valid" THEN f.data ELSE <<>>

\* prepare_article_for_storage
PrepareArticleForStorage(s) ==
    [item_id |-> s.id,
     content_type |-> IF s.content_type = "unset" THEN "unknown" ELSE s.content_type,
     comment_count |-> IF s.comment_count < 0 THEN 0 ELSE s.comment_count,
     topic |-> IF s.topic = "unset" THEN "none" ELSE s.topic]

PrepareAll(ss) == [i \in DOMAIN ss |-> PrepareArticleForStorage(ss[i])]

ItemIds(articles) == {articles[i].item_id : i \in DOMAIN articles}

\* save_articles, append mode: the new articles appended to the store
NewArticles(articles, existing) ==
    SelectSeq(articles, LAMBDA a : a.item_id \notin ItemIds(existing))

\* save_crawled_ids: errors are logged, never raised
SaveCrawledIds(f, ids, w) == WriteFile(f, ids, {}, w)

\* a save that records the ids before it writes the article store
SaveArticles_IdsFirst(articles, af, idf, wa, wi) ==
    LET existing == LoadArticles(af)
        all_articles == existing \o NewArticles(articles, existing)
        idf2 == SaveCrawledIds(idf, LoadCrawledIds(idf) \cup ItemIds(articles), wi)
    IN  [articles |-> WriteFile(af, all_articles, <<>>, wa),
         ids |-> idf2,
         status |-> CASE wa = "kill" \/ wi = "kill" -> "killed"
                      [] wa = "ok" -> "ok"
                      [] OTHER -> "raised"]

\* save_articles(articles, append=True), wa/wi the outcomes of the two writes
SaveArticles(articles, af, idf, wa, wi) ==
    LET existing == LoadArticles(af)
        all_articles == existing \o NewArticles(articles, existing)
        af2 == WriteFile(af, all_articles, <<>>, wa)
        crawled_ids == LoadCrawledIds(idf) \cup ItemIds(articles)
    IN  CASE wa = "ok" ->
               [articles |-> af2,
                ids |-> SaveCrawledIds(idf, crawled_ids, wi),
                status |-> IF wi = "kill" THEN "killed" ELSE "ok"]
          [] wa = "kill" -> [articles |-> af2, ids |-> idf, status |-> "killed"]
          [] OTHER -> [articles |-> af2, ids |-> idf, status |-> "raised"]

\* crawl(): failed_items
FailedItems(ss) ==
    LET f == SelectSeq(ss, LAMBDA s : s.content_type = "failed")
    IN  [i \in DOMAIN f |-> [item_id |-> f[i].id, error |-> "content_fetch_failed"]]

\* save_failed_items: the whole body is inside one try, errors are logged
SaveFailedItems(failed_items, ff, wf) ==
    IF ff.state = "partial"
    THEN [file |-> ff, status |-> "ok"]
    ELSE [file |-> WriteFile(ff, ff.data \o failed_items, <<>>, wf),
          status |-> IF wf = "kill" THEN "killed" ELSE "ok"]

(***************************************************************************)
(* hn_api.py, fetcher.py, parser.py, classifier.py as the orchestrator     *)
(* sees them: one task per item, each degrading to a value.                *)
(***************************************************************************)
\* what the feed holds for an id
RawItems == {"absent", "story", "story_notitle", "job"}

\* outcomes of fetch_article_data
ContentTypes == {"article", "failed", "video"}

\* outcomes of the classification call
LlmOutcomes == {"valid", "invalid", "error"}

FallbackTopic == "Open Source"

NoneItem == [id |-> 0, type |-> "none", content_type |-> "unset",
             comment_count |-> -1, topic |-> "unset"]

\* HNAPIClient.fetch_item_details
FetchItemDetails(item_id, raw) ==
    IF raw = "absent" THEN NoneItem
    ELSE IF raw = "story_notitle" THEN NoneItem
    ELSE [id |-> item_id, type |-> raw, content_type |-> "unset",
          comment_count |-> -1, topic |-> "unset"]

\* ArticleClassifier.classify_article
ClassifyArticle(article, llm) ==
    CASE llm = "valid" -> [article EXCEPT !.topic = "AI/ML"]
      [] llm = "invalid" -> [article EXCEPT !.topic = FallbackTopic]
      [] OTHER -> [article EXCEPT !.topic = FallbackTopic]

\* asyncio.gather(*tasks): one task per element, all launched together
Launch(list) == [i \in DOMAIN list |-> "inflight"]

\* a wait that returns when the first task has finished
AllDone_FirstCompleted(t) == t = <<>> \/ \E i \in DOMAIN t : t[i] = "done"

\* tasks launched and not awaited
AllDone_NotAwaited(t) == TRUE

\* a wait for one result more than there are tasks
AllDone_OneMore(t) == \A i \in 1..(Len(t) + 1) : i \in DOMAIN t /\ t[i] = "done"

\* await asyncio.gather(*tasks) returns once every task has finished
AllDone(t) == \A i \in DOMAIN t : t[i] = "done"

Pending(list) == [i \in DOMAIN list |-> NoneItem]

ZeroStats ==
    [total_fetched |-> 0, new_articles |-> 0, skipped_existing |-> 0,
     content_success |-> 0, content_failed |-> 0, content_skipped |-> 0,
     comments_parsed |-> 0, classified |-> 0]

\* a story as an earlier run left it: its content fetch had failed
PriorStory(id) ==
    [id |-> id, type |-> "story", content_type |-> "failed",
     comment_count |-> 0, topic |-> FallbackTopic]

\* the files an earlier run left: it persisted batch b, and wi was the
\* outcome of its write of crawled_ids.json
PriorStore(b, wi) ==
    LET ss == [i \in DOMAIN b |-> PriorStory(b[i])]
        saved == SaveArticles(PrepareAll(ss), MissingFile(<<>>), MissingFile({}), "ok", wi)
    IN  [articles |-> saved.articles,
         ids |-> saved.ids,
         failed |-> IF b = <<>> THEN MissingFile(<<>>)
                    ELSE SaveFailedItems(FailedItems(ss), MissingFile(<<>>), "ok").file]

\* story.get("url", "") of a story without a url
EmptyUrl == [kind |-> "empty", netloc |-> <<>>, path |-> <<>>]

\* no request has returned yet
NoResult == [status |-> "pending", value |-> "none", len |-> 0, content_type |-> "none"]

\* HNAPIClient() and ArticleFetcher() with no request in progress
FetchIdle ==
    /\ fpc = "idle"
    /\ fclient = "feed"
    /\ furl = EmptyUrl
    /\ fmax = 0
    /\ attempt = 0
    /\ calls = <<>>
    /\ sleeps = <<>>
    /\ fresult = NoResult

\* ArticleClassifier() with no call in progress
ClsIdle ==
    /\ cpc = "idle"
    /\ topics = {}
    /\ carticle = [title |-> ""]
    /\ llm_responses = <<>>
    /\ cresult = [status |-> "pending", topic |-> "", tags |-> <<>>,
                  classification_confidence |-> ""]

\* content = None
NoContent == [present |-> FALSE, text |-> <<>>]

\* no article is being prepared for storage
PrepIdle ==
    /\ ppc = "idle"
    /\ particle = [id |-> 0, content_type |-> "unset", comment_count |-> -1,
                   topic |-> "unset", content |-> NoContent]
    /\ stored = [item_id |-> 0]

\* crawl() has been called at most once on the instance
FirstRun == runs = 1

\* CrawlRequest(): num_stories, force_refresh (api/crawl.py lines 15-18);
\* the model keeps num_stories within its feed bound
DefaultRequest == [num_stories |-> 1, force_refresh |-> FALSE]

\* no request to the trigger endpoint
TrigIdle ==
    /\ tpc = "idle"
    /\ request = DefaultRequest
    /\ argv = <<>>

\* the processes that may share the store
Procs == {1, 2}

\* a process that is not inside save_articles
NotSaving == [pc |-> "idle", articles |-> <<>>, existing |-> <<>>, crawled_ids |-> {}]

SaveIdle == saving = [p \in Procs |-> NotSaving]

UnitsIdle == FetchIdle /\ ClsIdle /\ PrepIdle /\ FirstRun /\ TrigIdle /\ SaveIdle

\* the state after HNCrawler(...) is constructed, over the files earlier
\* runs left
WalkIdle ==
    /\ wpc = "idle"
    /\ parser = [max_top_comments |-> 1, max_replies |-> 1, high_score_threshold |-> 1]
    /\ kid_ids = <<>>
    /\ inflight = {}
    /\ fetched = {}
    /\ fetchedTop = <<>>
    /\ fetchedReplies = <<>>
    /\ top_comments = <<>>
    /\ idx = 0
    /\ formatted_lines = <<>>
    /\ high_score_comments = <<>>
    /\ comment_count = -1

Init ==
    /\ WalkIdle
    /\ UnitsIdle
    /\ pc = "Idle"
    /\ skip_existing = TRUE
    /\ enable_classification \in BOOLEAN
    /\ story_ids = <<>>
    /\ stories = <<>>
    /\ tasks = <<>>
    /\ stats = ZeroStats
    /\ outcome = "none"
    /\ returned = <<>>
    /\ \E b \in SeqsUpTo(Ids, MaxPrior), wi \in {"ok", "fail_open"} :
          /\ articlesFile = PriorStore(b, wi).articles
          /\ idsFile = PriorStore(b, wi).ids
          /\ failedFile = PriorStore(b, wi).failed
    /\ hist = [articlesAtStart |-> articlesFile, idsAtStart |-> idsFile,
               failedAtStart |-> failedFile, feed |-> <<>>,
               detailFetched |-> {}, contentFetched |-> {}, commentFetched |-> {},
               classifyCalled |-> {}, stages |-> <<>>, batch |-> <<>>,
               writes |-> <<>>]

Enter(stage) == [hist EXCEPT !.stages = Append(@, stage)]

\* crawl() returns (or raises) and the orchestrator is idle again
Finish(how, value) ==
    /\ pc' = "Idle"
    /\ outcome' = how
    /\ returned' = value
    /\ tasks' = <<>>

\* crawl(skip_existing) is called: crawler.py lines 54-70
StartRun(skip) ==
    /\ pc = "Idle"
    /\ outcome = "none"
    /\ pc' = "FetchIds"
    /\ skip_existing' = skip
    /\ outcome' = "running"
    /\ hist' = Enter("FetchIds")
    /\ UNCHANGED <<enable_classification, story_ids, stories, tasks, stats,
                   returned, articlesFile, idsFile, failedFile>>

\* crawler.py lines 70-93: fetch_top_stories returns, FilterNew, and the
\* item-detail fetches are launched
FetchIdsReturn(ids) ==
    /\ pc = "FetchIds"
    /\ LET crawled_ids == LoadCrawledIds(idsFile)
           new_ids == IF skip_existing
                      THEN SelectSeq(ids, LAMBDA sid : sid \notin crawled_ids)
                      ELSE ids
           stats2 == IF skip_existing /\ ids # <<>>
                     THEN [stats EXCEPT !.skipped_existing = Len(ids) - Len(new_ids)]
                     ELSE stats
           h == [hist EXCEPT !.feed = ids]
       IN  IF ids = <<>>
           THEN /\ Finish("empty_feed", <<>>)
                /\ hist' = h
                /\ UNCHANGED <<story_ids, stories, stats>>
           ELSE IF new_ids = <<>>
           THEN /\ Finish("no_new", <<>>)
                /\ stats' = stats2
                /\ hist' = [h EXCEPT !.stages = Append(@, "FilterNew")]
                /\ UNCHANGED <<story_ids, stories>>
           ELSE /\ pc' = "FetchDetails"
                /\ story_ids' = new_ids
                /\ stories' = Pending(new_ids)
                /\ tasks' = Launch(new_ids)
                /\ stats' = stats2
                /\ hist' = [h EXCEPT !.stages = @ \o <<"FilterNew", "FetchDetails">>,
                                     !.detailFetched = Range(new_ids)]
                /\ UNCHANGED <<outcome, returned>>
    /\ UNCHANGED <<skip_existing, enable_classification, articlesFile, idsFile,
                   failedFile>>

\* one fetch_item_details task of fetch_multiple_items finishes
DetailDone(i, raw) ==
    /\ pc = "FetchDetails"
    /\ i \in DOMAIN tasks
    /\ tasks[i] = "inflight"
    /\ tasks' = [tasks EXCEPT ![i] = "done"]
    /\ stories' = [stories EXCEPT ![i] = FetchItemDetails(story_ids[i], raw)]
    /\ UNCHANGED <<pc, skip_existing, enable_classification, story_ids, stats,
                   outcome, returned, articlesFile, idsFile, failedFile, hist>>

\* crawler.py lines 93-105 with hn_api.py lines 115-121: the gather of the
\* item details returns, absent items and non-stories are dropped, and the
\* content fetches are launched
DetailsGathered ==
    /\ pc = "FetchDetails"
    /\ AllDone(tasks)
    /\ LET valid_results == SelectSeq(stories, LAMBDA s : s.type # "none")
           ss == SelectSeq(valid_results, LAMBDA s : s.type = "story")
           stats2 == [stats EXCEPT !.total_fetched = Len(ss)]
       IN  /\ stats' = stats2
           /\ stories' = ss
           /\ IF ss = <<>>
              THEN /\ Finish("no_stories", <<>>)
                   /\ hist' = hist
              ELSE /\ pc' = "FetchContent"
                   /\ tasks' = Launch(ss)
                   /\ hist' = [hist EXCEPT
                                 !.stages = Append(@, "FetchContent"),
                                 !.batch = [i \in DOMAIN ss |-> ss[i].id],
                                 !.contentFetched = {ss[i].id : i \in DOMAIN ss}]
                   /\ UNCHANGED <<outcome, returned>>
    /\ UNCHANGED <<skip_existing, enable_classification, story_ids,
                   articlesFile, idsFile, failedFile>>

\* one fetch_article_data task of fetch_multiple_articles finishes
ContentDone(i, ct) ==
    /\ pc = "FetchContent"
    /\ i \in DOMAIN tasks
    /\ tasks[i] = "inflight"
    /\ tasks' = [tasks EXCEPT ![i] = "done"]
    /\ stories' = [stories EXCEPT ![i].content_type = ct]
    /\ UNCHANGED <<pc, skip_existing, enable_classification, story_ids, stats,
                   outcome, returned, articlesFile, idsFile, failedFile, hist>>

\* a count that books failed fetches as skipped
CountContent_FailedAsSkipped(st, ss) ==
    [st EXCEPT
       !.content_success = @ + CountIf(ss, LAMBDA s : s.content_type = "article"),
       !.content_skipped = @ + CountIf(ss, LAMBDA s : s.content_type # "article")]

\* crawler.py lines 107-115: count content results
CountContent(st, ss) ==
    [st EXCEPT
       !.content_success = @ + CountIf(ss, LAMBDA s : s.content_type = "article"),
       !.content_failed = @ + CountIf(ss, LAMBDA s : s.content_type = "failed"),
       !.content_skipped = @ + CountIf(ss, LAMBDA s : s.content_type \notin {"article", "failed"})]

\* crawler.py lines 105-118: the gather of the content fetches returns, the
\* outcomes are counted and the comment walks are launched
ContentGathered ==
    /\ pc = "FetchContent"
    /\ AllDone(tasks)
    /\ stats' = CountContent(stats, stories)
    /\ pc' = "ParseComments"
    /\ tasks' = Launch(stories)
    /\ hist' = [hist EXCEPT !.stages = Append(@, "ParseComments"),
                            !.commentFetched = {stories[i].id : i \in DOMAIN stories}]
    /\ UNCHANGED <<skip_existing, enable_classification, story_ids, stories,
                   outcome, returned, articlesFile, idsFile, failedFile>>

\* one parse_story_comments task of parse_multiple_stories finishes
CommentsDone(i, cc) ==
    /\ pc = "ParseComments"
    /\ i \in DOMAIN tasks
    /\ tasks[i] = "inflight"
    /\ tasks' = [tasks EXCEPT ![i] = "done"]
    /\ stories' = [stories EXCEPT ![i].comment_count = cc]
    /\ UNCHANGED <<pc, skip_existing, enable_classification, story_ids, stats,
                   outcome, returned, articlesFile, idsFile, failedFile, hist>>

\* number of injected faults among the outcomes of the three writes
FaultCount(wa, wi, wf) ==
    Cardinality({k \in {1, 2, 3} : <<wa, wi, wf>>[k] # "ok"})

\* crawler.py lines 129-151: PersistBatch. wa, wi, wf are the outcomes of
\* the writes of articles.json, crawled_ids.json and failed_items.json.
PersistBatch(st, stories_classified, wa, wi, wf) ==
    LET prepared_articles == PrepareAll(stories_classified)
        stats2 == [st EXCEPT !.new_articles = Len(prepared_articles)]
        saved == SaveArticles(prepared_articles, articlesFile, idsFile, wa, wi)
        failed_items == FailedItems(stories_classified)
        logged == IF failed_items # <<>>
                  THEN SaveFailedItems(failed_items, failedFile, wf)
                  ELSE [file |-> failedFile, status |-> "ok"]
    IN  /\ FaultCount(wa, wi, wf) <= MaxFaults
        /\ wa # "ok" => wi = "ok"
        /\ (saved.status # "ok" \/ failed_items = <<>> \/ failedFile.state = "partial")
              => wf = "ok"
        /\ stats' = stats2
        /\ stories' = stories_classified
        /\ articlesFile' = saved.articles
        /\ idsFile' = saved.ids
        /\ hist' = [hist EXCEPT !.stages = Append(@, "PersistBatch"),
                                !.writes = <<wa, wi, wf>>]
        /\ IF saved.status = "ok"
           THEN /\ failedFile' = logged.file
                /\ IF logged.status = "ok"
                   THEN Finish("done", prepared_articles)
                   ELSE Finish("killed", <<>>)
           ELSE /\ failedFile' = failedFile
                /\ Finish(IF saved.status = "raised" THEN "error" ELSE "killed", <<>>)

\* crawler.py lines 118-135: the gather of the comment walks returns; the
\* classification calls are launched, or, when classification is disabled,
\* the batch is persisted
CommentsGathered(wa, wi, wf) ==
    /\ pc = "ParseComments"
    /\ AllDone(tasks)
    /\ LET stats2 == [stats EXCEPT !.comments_parsed =
                         SumSeq([i \in DOMAIN stories |-> stories[i].comment_count])]
       IN  IF enable_classification
           THEN /\ wa = "ok" /\ wi = "ok" /\ wf = "ok"
                /\ pc' = "Classify"
                /\ tasks' = Launch(stories)
                /\ stats' = stats2
                /\ hist' = [hist EXCEPT !.stages = Append(@, "Classify"),
                                        !.classifyCalled = {stories[i].id : i \in DOMAIN stories}]
                /\ UNCHANGED <<stories, outcome, returned, articlesFile, idsFile,
                               failedFile>>
           ELSE PersistBatch(stats2, stories, wa, wi, wf)
    /\ UNCHANGED <<skip_existing, enable_classification, story_ids>>

\* one classify_article task of classify_multiple finishes
ClassifyDone(i, llm) ==
    /\ pc = "Classify"
    /\ i \in DOMAIN tasks
    /\ tasks[i] = "inflight"
    /\ tasks' = [tasks EXCEPT ![i] = "done"]
    /\ stories' = [stories EXCEPT ![i] = ClassifyArticle(stories[i], llm)]
    /\ UNCHANGED <<pc, skip_existing, enable_classification, story_ids, stats,
                   outcome, returned, articlesFile, idsFile, failedFile, hist>>

\* crawler.py lines 124-151: the gather of the classification calls returns
\* and the batch is persisted
ClassifyGathered(wa, wi, wf) ==
    /\ pc = "Classify"
    /\ AllDone(tasks)
    /\ PersistBatch([stats EXCEPT !.classified =
                        CountIf(stories, LAMBDA s : s.topic # "unset")],
                    stories, wa, wi, wf)
    /\ UNCHANGED <<skip_existing, enable_classification, story_ids>>

Next ==
    \/ \E skip \in BOOLEAN : StartRun(skip) /\ UNCHANGED <<walkVars, unitVars>>
    \/ \E ids \in SeqsUpTo(Ids, MaxFeed) : FetchIdsReturn(ids) /\ UNCHANGED <<walkVars, unitVars>>
    \/ \E i \in 1..MaxFeed, raw \in RawItems : DetailDone(i, raw) /\ UNCHANGED <<walkVars, unitVars>>
    \/ DetailsGathered /\ UNCHANGED <<walkVars, unitVars>>
    \/ \E i \in 1..MaxFeed, ct \in ContentTypes : ContentDone(i, ct) /\ UNCHANGED <<walkVars, unitVars>>
    \/ ContentGathered /\ UNCHANGED <<walkVars, unitVars>>
    \/ \E i \in 1..MaxFeed, cc \in 0..MaxCommentCount : CommentsDone(i, cc) /\ UNCHANGED <<walkVars, unitVars>>
    \/ \E wa \in WriteFaults, wi \in WriteFaults, wf \in WriteFaults :
          CommentsGathered(wa, wi, wf) /\ UNCHANGED <<walkVars, unitVars>>
    \/ \E i \in 1..MaxFeed, llm \in LlmOutcomes : ClassifyDone(i, llm) /\ UNCHANGED <<walkVars, unitVars>>
    \/ \E wa \in WriteFaults, wi \in WriteFaults, wf \in WriteFaults :
          ClassifyGathered(wa, wi, wf) /\ UNCHANGED <<walkVars, unitVars>>

Spec == Init /\ [][Next]_vars

(***************************************************************************)
(* Several calls of crawl() on one HNCrawler instance: the statistics of   *)
(* the instance and the files stay as the previous call left them.         *)
(***************************************************************************)
\* crawl(skip_existing) is called again on the instance after the previous
\* call has returned or raised: crawler.py lines 64-70; self.stats is not
\* set up again (it is set up in __init__, lines 40-52)
CrawlAgain(skip) ==
    /\ pc = "Idle"
    /\ outcome \notin {"none", "running", "killed"}
    /\ runs < MaxRuns
    /\ runs' = runs + 1
    /\ pc' = "FetchIds"
    /\ skip_existing' = skip
    /\ outcome' = "running"
    /\ story_ids' = <<>>
    /\ stories' = <<>>
    /\ returned' = <<>>
    /\ hist' = [articlesAtStart |-> articlesFile, idsAtStart |-> idsFile,
                failedAtStart |-> failedFile, feed |-> <<>>,
                detailFetched |-> {}, contentFetched |-> {}, commentFetched |-> {},
                classifyCalled |-> {}, stages |-> <<"FetchIds">>, batch |-> <<>>,
                writes |-> <<>>]
    /\ UNCHANGED <<enable_classification, tasks, stats, articlesFile, idsFile,
                   failedFile>>

NextRuns ==
    \/ \E skip \in BOOLEAN : StartRun(skip) /\ UNCHANGED <<walkVars, unitVars>>
    \/ \E skip \in BOOLEAN :
          CrawlAgain(skip) /\ UNCHANGED <<walkVars, fetchVars, clsVars, prepVars,
                                           trigVars, saving>>
    \/ \E ids \in SeqsUpTo(Ids, MaxFeedRuns) :
          FetchIdsReturn(ids) /\ UNCHANGED <<walkVars, unitVars>>
    \/ \E i \in 1..MaxFeedRuns, raw \in RawItems :
          DetailDone(i, raw) /\ UNCHANGED <<walkVars, unitVars>>
    \/ DetailsGathered /\ UNCHANGED <<walkVars, unitVars>>
    \/ \E i \in 1..MaxFeedRuns, ct \in ContentTypes :
          ContentDone(i, ct) /\ UNCHANGED <<walkVars, unitVars>>
    \/ ContentGathered /\ UNCHANGED <<walkVars, unitVars>>
    \/ \E i \in 1..MaxFeedRuns, cc \in 0..MaxCommentCount :
          CommentsDone(i, cc) /\ UNCHANGED <<walkVars, unitVars>>
    \/ \E wa \in WriteFaults, wi \in WriteFaults, wf \in WriteFaults :
          CommentsGathered(wa, wi, wf) /\ UNCHANGED <<walkVars, unitVars>>
    \/ \E i \in 1..MaxFeedRuns, llm \in LlmOutcomes :
          ClassifyDone(i, llm) /\ UNCHANGED <<walkVars, unitVars>>
    \/ \E wa \in WriteFaults, wi \in WriteFaults, wf \in WriteFaults :
          ClassifyGathered(wa, wi, wf) /\ UNCHANGED <<walkVars, unitVars>>

SpecRuns == Init /\ [][NextRuns]_vars

(***************************************************************************)
(* parser.py: one walk of CommentParser.parse_comment_tree over the        *)
(* comment tree of a story.  The tree: the story's kids are the comments   *)
(* 1..n; comment 1 has the replies 11 and 12, comment 2 the reply 21, and  *)
(* reply 11 has a reply of its own, 111.  What the feed answers for an id  *)
(* (absent, an item of another type, a comment with some score) is chosen  *)
(* when the fetch returns.                                                 *)
(***************************************************************************)
TopKids(n) == [i \in 1..n |-> i]

TreeKids(id) ==
    CASE id = 1 -> <<11, 12>>
      [] id = 2 -> <<21>>
      [] id = 11 -> <<111>>
      [] OTHER -> <<>>

DeeperIds == {111}

\* what the feed can answer for one item
FeedAnswers ==
    {[type |-> "none", score |-> 0], [type |-> "other", score |-> 0]}
        \cup {[type |-> "comment", score |-> sc] : sc \in 0..MaxScore}

ItemOf(id, a) == [id |-> id, type |-> a.type, score |-> a.score, kids |-> TreeKids(id)]

\* HNAPIClient.fetch_multiple_items: results in the order of item_ids,
\* failed fetches dropped
FetchMultipleItems(item_ids, answer) ==
    SelectSeq([i \in DOMAIN item_ids |-> ItemOf(item_ids[i], answer[item_ids[i]])],
              LAMBDA item : item.type # "none")

\* the place of x in a list sorted by descending score: behind every
\* element whose score is not smaller
RECURSIVE InsertByScore(_, _)
InsertByScore(sorted, x) ==
    IF sorted = <<>> THEN <<x>>
    ELSE IF Head(sorted).score >= x.score
         THEN <<Head(sorted)>> \o InsertByScore(Tail(sorted), x)
         ELSE <<x>> \o sorted

\* a sort that puts an element before the elements of equal score
RECURSIVE SortByScore_Unstable(_)
SortByScore_Unstable(list) ==
    IF list = <<>> THEN <<>>
    ELSE LET rest == SortByScore_Unstable(SubSeq(list, 1, Len(list) - 1))
             x == list[Len(list)]
             before == SelectSeq(rest, LAMBDA y : y.score > x.score)
             after == SelectSeq(rest, LAMBDA y : y.score <= x.score)
         IN  before \o <<x>> \o after

\* comments.sort(key=score, reverse=True): a stable sort, descending
RECURSIVE SortByScore(_)
SortByScore(list) ==
    IF list = <<>> THEN <<>>
    ELSE InsertByScore(SortByScore(SubSeq(list, 1, Len(list) - 1)), list[Len(list)])

OnlyComments(items) == SelectSeq(items, LAMBDA k : k.type = "comment")

\* a slice that keeps the whole list
Truncate_Whole(list, n) == list

\* comments[:max_replies]
Truncate(list, n) == SubSeq(list, 1, IF Len(list) < n THEN Len(list) ELSE n)

\* CommentParser._fetch_top_replies, lines 87-91: filter, sort, slice
SelectTop(items, max_replies) ==
    Truncate(SortByScore(OnlyComments(items)), max_replies)

\* CommentParser._format_comment: the line of a comment; the id stands for
\* its author and text
FormatComment(comment, indent_level) ==
    [id |-> comment.id, indent |-> indent_level,
     prefix |-> IF indent_level > 0 THEN "|-" ELSE "", score |-> comment.score]

HighEntry(comment) == [id |-> comment.id, score |-> comment.score]

\* a threshold test that leaves out the threshold itself
IsHighScore_Strict(score, threshold) == score > threshold

\* parse_comment_tree lines 135 and 152
IsHighScore(score, threshold) == score >= threshold

\* parse_comment_tree line 148
ReplyIndent == 1

\* parse_comment_tree lines 129-145: the loop over top_comments from index
\* k on, up to the next await (a comment with kids) or the end of the list
RECURSIVE FormatUntilAwait(_, _, _, _, _)
FormatUntilAwait(top, k, lines, high, threshold) ==
    IF k > Len(top)
    THEN [k |-> k, lines |-> lines, high |-> high, await |-> FALSE]
    ELSE LET comment == top[k]
             lines2 == Append(lines, FormatComment(comment, 0))
             high2 == IF IsHighScore(comment.score, threshold)
                      THEN Append(high, HighEntry(comment))
                      ELSE high
         IN  IF comment.kids # <<>>
             THEN [k |-> k, lines |-> lines2, high |-> high2, await |-> TRUE]
             ELSE FormatUntilAwait(top, k + 1, lines2, high2, threshold)

\* parse_comment_tree lines 147-157: the replies of one comment
RECURSIVE FormatReplies(_, _, _, _)
FormatReplies(replies, lines, high, threshold) ==
    IF replies = <<>>
    THEN [lines |-> lines, high |-> high]
    ELSE LET reply == Head(replies)
         IN  FormatReplies(Tail(replies),
                           Append(lines, FormatComment(reply, ReplyIndent)),
                           IF IsHighScore(reply.score, threshold)
                           THEN Append(high, HighEntry(reply))
                           ELSE high,
                           threshold)

PipeIdle ==
    /\ pc = "Idle"
    /\ skip_existing = TRUE
    /\ enable_classification = TRUE
    /\ story_ids = <<>>
    /\ stories = <<>>
    /\ tasks = <<>>
    /\ stats = ZeroStats
    /\ outcome = "none"
    /\ returned = <<>>
    /\ articlesFile = MissingFile(<<>>)
    /\ idsFile = MissingFile({})
    /\ failedFile = MissingFile(<<>>)
    /\ hist = [articlesAtStart |-> articlesFile, idsAtStart |-> idsFile,
               failedAtStart |-> failedFile, feed |-> <<>>,
               detailFetched |-> {}, contentFetched |-> {}, commentFetched |-> {},
               classifyCalled |-> {}, stages |-> <<>>, batch |-> <<>>,
               writes |-> <<>>]

\* CommentParser() with its three settings, and a story with n kids
InitWalk ==
    /\ PipeIdle
    /\ UnitsIdle
    /\ wpc = "idle"
    /\ parser \in [max_top_comments : 1..MaxTopCfg,
                   max_replies : 1..MaxRepliesCfg,
                   high_score_threshold : 1..MaxScore]
    /\ kid_ids \in {TopKids(n) : n \in 0..MaxKids}
    /\ inflight = {}
    /\ fetched = {}
    /\ fetchedTop = <<>>
    /\ fetchedReplies = <<>>
    /\ top_comments = <<>>
    /\ idx = 0
    /\ formatted_lines = <<>>
    /\ high_score_comments = <<>>
    /\ comment_count = -1

\* _fetch_top_replies line 85: the fetches of all kids are launched
LaunchFetch(ids) ==
    /\ inflight' = Range(ids)
    /\ fetched' = fetched \cup Range(ids)

\* the loop has reached an await (replies of top[k]) or its end
Continue(top, r) ==
    /\ formatted_lines' = r.lines
    /\ high_score_comments' = r.high
    /\ IF r.await
       THEN /\ wpc' = "replies"
            /\ idx' = r.k
            /\ LaunchFetch(top[r.k].kids)
            /\ comment_count' = comment_count
       ELSE /\ wpc' = "done"
            /\ idx' = 0
            /\ inflight' = {}
            /\ fetched' = fetched
            /\ comment_count' = Len(top)

\* parse_comment_tree lines 103-116: called with the story
WalkStart ==
    /\ wpc = "idle"
    /\ IF kid_ids = <<>>
       THEN /\ wpc' = "done"
            /\ comment_count' = 0
            /\ UNCHANGED <<inflight, fetched>>
       ELSE /\ wpc' = "top"
            /\ LaunchFetch(kid_ids)
            /\ comment_count' = comment_count
    /\ UNCHANGED <<parser, kid_ids, fetchedTop, fetchedReplies, top_comments, idx,
                   formatted_lines, high_score_comments>>

\* parse_comment_tree lines 116-145: the fetch of the top-level comments
\* returns; they are selected and formatted up to the first await
TopFetched(answer) ==
    /\ wpc = "top"
    /\ LET kids == FetchMultipleItems(kid_ids, answer)
           top == SelectTop(kids, parser.max_top_comments)
       IN  /\ fetchedTop' = OnlyComments(kids)
           /\ top_comments' = top
           /\ IF top = <<>>
              THEN /\ wpc' = "done"
                   /\ comment_count' = 0
                   /\ inflight' = {}
                   /\ UNCHANGED <<fetched, idx, formatted_lines, high_score_comments>>
              ELSE Continue(top, FormatUntilAwait(top, 1, <<>>, <<>>,
                                                  parser.high_score_threshold))
    /\ UNCHANGED <<parser, kid_ids, fetchedReplies>>

\* parse_comment_tree lines 145-157 and on: the fetch of the replies of
\* top_comments[idx] returns; they are selected and formatted and the loop
\* goes on to the next await or to the end
RepliesFetched(answer) ==
    /\ wpc = "replies"
    /\ LET kids == FetchMultipleItems(top_comments[idx].kids, answer)
           replies == SelectTop(kids, parser.max_replies)
           f == FormatReplies(replies, formatted_lines, high_score_comments,
                              parser.high_score_threshold)
       IN  /\ fetchedReplies' = Append(fetchedReplies,
                                       [parent |-> top_comments[idx].id,
                                        comments |-> OnlyComments(kids)])
           /\ Continue(top_comments,
                       FormatUntilAwait(top_comments, idx + 1, f.lines, f.high,
                                        parser.high_score_threshold))
    /\ UNCHANGED <<parser, kid_ids, fetchedTop, top_comments>>

NextWalk ==
    \/ WalkStart /\ UNCHANGED <<pipeVars, unitVars>>
    \/ \E answer \in [inflight -> FeedAnswers] : TopFetched(answer) /\ UNCHANGED <<pipeVars, unitVars>>
    \/ \E answer \in [inflight -> FeedAnswers] : RepliesFetched(answer) /\ UNCHANGED <<pipeVars, unitVars>>

SpecWalk == InitWalk /\ [][NextWalk]_vars

(***************************************************************************)
(* hn_api.py and fetcher.py: one request with its retries.  A url is its   *)
(* netloc and its path, each a sequence of tokens; a response is a         *)
(* timeout, another network error, or a status code with a body.           *)
(***************************************************************************)
\* the length under which fetch_content rejects a body (fetcher.py line 95)
MinContentLength == 100

\* str.lower(), token by token
LowerToken(t) ==
    CASE t = "YOUTU" -> "youtu"
      [] t = "BE" -> "be"
      [] t = "ZIP" -> "zip"
      [] OTHER -> t

Lower(str) == [i \in DOMAIN str |-> LowerToken(str[i])]

\* str.endswith(suffix)
EndsWith(str, suffix) ==
    /\ Len(suffix) <= Len(str)
    /\ SubSeq(str, Len(str) - Len(suffix) + 1, Len(str)) = suffix

\* sub in str
Contains(str, sub) ==
    \E i \in 1..(Len(str) - Len(sub) + 1) : SubSeq(str, i, i + Len(sub) - 1) = sub

\* ArticleFetcher.__init__: self.skip_extensions, self.skip_domains
skip_extensions ==
    {<<".", e>> : e \in {"pdf", "mp4", "mp3", "avi", "mov", "zip", "tar", "gz"}}

skip_domains == {<<"youtube", "com">>, <<"youtu", "be">>, <<"vimeo", "com">>}

\* ext[1:], the extension without its dot
StripDot(ext) == Tail(ext)[1]

\* a skip check that knows the blocked domains only
ShouldSkipUrl_DomainsOnly(url) ==
    IF url.kind = "empty" THEN [skip |-> TRUE, content_type |-> "no-url"]
    ELSE IF url.kind = "unparseable" THEN [skip |-> TRUE, content_type |-> "invalid-url"]
    ELSE IF \E d \in skip_domains : Contains(Lower(url.netloc), d)
         THEN [skip |-> TRUE, content_type |-> "video"]
         ELSE [skip |-> FALSE, content_type |-> "article"]

\* ArticleFetcher._should_skip_url
ShouldSkipUrl(url) ==
    IF url.kind = "empty" THEN [skip |-> TRUE, content_type |-> "no-url"]
    ELSE IF url.kind = "unparseable" THEN [skip |-> TRUE, content_type |-> "invalid-url"]
    ELSE LET domain == Lower(url.netloc)
             path == Lower(url.path)
         IN  IF \E d \in skip_domains : Contains(domain, d)
             THEN [skip |-> TRUE, content_type |-> "video"]
             ELSE IF \E ext \in skip_extensions : EndsWith(path, ext)
                  THEN [skip |-> TRUE,
                        content_type |->
                            StripDot(CHOOSE ext \in skip_extensions : EndsWith(path, ext))]
                  ELSE [skip |-> FALSE, content_type |-> "article"]

\* the urls of the stories
Netlocs == {<<"example", "com">>, <<"www", "youtube", "com">>, <<"YOUTU", "BE">>}

Paths == {<<"/a">>, <<"/a", ".", "html">>, <<"/a", ".", "pdf">>, <<"/a", ".", "ZIP">>,
          <<"/a", ".", "tar", ".", "gz">>}

Urls ==
    {EmptyUrl, [kind |-> "unparseable", netloc |-> <<>>, path |-> <<>>]}
        \cup {[kind |-> "ok", netloc |-> n, path |-> p] : n \in Netlocs, p \in Paths}

\* what one network call can produce
Response(kind, code, len, json) == [kind |-> kind, code |-> code, len |-> len, json |-> json]

ContentResponses ==
    {Response("timeout", 0, 0, "none"), Response("neterror", 0, 0, "none")}
        \cup {Response("status", 200, n, "none") :
                  n \in {0, MinContentLength - 1, MinContentLength}}
        \cup {Response("status", c, 0, "none") : c \in {400, 403, 404, 500}}

FeedResponses ==
    {Response("timeout", 0, 0, "none"), Response("neterror", 0, 0, "none")}
        \cup {Response("status", 200, 0, j) : j \in {"object", "null", "invalid"}}
        \cup {Response("status", c, 0, "none") : c \in {404, 500}}

\* HNAPIClient._fetch_with_retry lines 34-43: the body of the loop.
\* raise_for_status raises for every 4xx and 5xx, and every exception is
\* caught and leads to the backoff
FeedOutcome(resp) ==
    IF resp.kind # "status" THEN "retry"
    ELSE IF resp.code >= 400 THEN "retry"
    ELSE IF resp.json = "invalid" THEN "retry"
    ELSE "value"

\* a fetcher that accepts every body of a 200 response
ContentOutcome_AnyBody(resp) ==
    IF resp.kind # "status" THEN "retry"
    ELSE IF resp.code = 200 THEN "value"
    ELSE IF resp.code \in {403, 404} THEN "none"
    ELSE "retry"

\* ArticleFetcher.fetch_content lines 84-120: the body of the loop
ContentOutcome(resp) ==
    IF resp.kind # "status" THEN "retry"
    ELSE IF resp.code = 200
         THEN IF resp.len < MinContentLength THEN "none" ELSE "value"
    ELSE IF resp.code \in {403, 404} THEN "none"
    ELSE "retry"

AttemptOutcome(client, resp) ==
    IF client = "feed" THEN FeedOutcome(resp) ELSE ContentOutcome(resp)

\* a loop that runs once more than range(max_retries)
InRange_OneMore(a, max_retries) == a <= max_retries

\* for attempt in range(self.max_retries)
InRange(a, max_retries) == a < max_retries

\* if attempt < self.max_retries - 1
ShouldBackoff(a, max_retries) == a < max_retries - 1

\* 2 ** attempt
RECURSIVE Pow2(_)
Pow2(n) == IF n = 0 THEN 1 ELSE 2 * Pow2(n - 1)

\* what the request returns for a value: the json of the feed (null is
\* None), or the content when it is not empty (fetch_article_data line 157)
ValueResult(client, resp) ==
    IF client = "feed"
    THEN [status |-> "returned",
          value |-> IF resp.json = "null" THEN "absent" ELSE "json",
          len |-> 0, content_type |-> "none"]
    ELSE IF resp.len > 0
         THEN [status |-> "returned", value |-> "content", len |-> resp.len,
               content_type |-> "article"]
         ELSE [status |-> "returned", value |-> "absent", len |-> 0,
               content_type |-> "failed"]

\* a request that raises when it gives up
NoneResult_Raises(client) ==
    [status |-> "raised", value |-> "absent", len |-> 0, content_type |-> "none"]

\* return None (hn_api.py line 49, fetcher.py line 127) and what
\* fetch_article_data makes of it (lines 161-164)
NoneResult(client) ==
    [status |-> "returned", value |-> "absent", len |-> 0,
     content_type |-> IF client = "feed" THEN "none" ELSE "failed"]

SkippedResult(content_type) ==
    [status |-> "returned", value |-> "absent", len |-> 0, content_type |-> content_type]

InitFetch ==
    /\ PipeIdle
    /\ WalkIdle
    /\ ClsIdle
    /\ PrepIdle
    /\ FirstRun
    /\ TrigIdle
    /\ SaveIdle
    /\ fpc = "idle"
    /\ \E c \in {"feed", "content"}, u \in Urls :
          /\ fclient = c
          /\ furl = IF c = "feed" THEN EmptyUrl ELSE u
    /\ fmax \in 0..MaxRetriesCfg
    /\ attempt = 0
    /\ calls = <<>>
    /\ sleeps = <<>>
    /\ fresult = NoResult

\* the loop goes to iteration a, or ends and the request gives up
Iterate(a) ==
    /\ attempt' = a
    /\ IF InRange(a, fmax)
       THEN fpc' = "attempt" /\ fresult' = fresult
       ELSE fpc' = "done" /\ fresult' = NoneResult(fclient)

\* _fetch_with_retry is called (lines 32-33)
FeedRequestStart ==
    /\ fpc = "idle"
    /\ fclient = "feed"
    /\ Iterate(0)
    /\ UNCHANGED <<fclient, furl, fmax, calls, sleeps>>

\* fetch_article_data is called (lines 139-155) and, for a url that is not
\* skipped, fetch_content (lines 75-83)
FetchArticleDataStart ==
    /\ fpc = "idle"
    /\ fclient = "content"
    /\ LET check == ShouldSkipUrl(furl)
       IN  IF check.skip
           THEN /\ fpc' = "done"
                /\ fresult' = SkippedResult(check.content_type)
                /\ attempt' = attempt
           ELSE Iterate(0)
    /\ UNCHANGED <<fclient, furl, fmax, calls, sleeps>>

\* client.get returns or raises: one network attempt and what the loop
\* body does with it
Attempt(resp) ==
    /\ fpc = "attempt"
    /\ calls' = Append(calls, resp)
    /\ LET o == AttemptOutcome(fclient, resp)
       IN  CASE o = "value" ->
                    /\ fpc' = "done"
                    /\ fresult' = ValueResult(fclient, resp)
                    /\ attempt' = attempt
             [] o = "none" ->
                    /\ fpc' = "done"
                    /\ fresult' = NoneResult(fclient)
                    /\ attempt' = attempt
             [] OTHER ->
                    IF ShouldBackoff(attempt, fmax)
                    THEN /\ fpc' = "sleep"
                         /\ UNCHANGED <<attempt, fresult>>
                    ELSE Iterate(attempt + 1)
    /\ UNCHANGED <<fclient, furl, fmax, sleeps>>

\* await asyncio.sleep(2 ** attempt) returns
Backoff ==
    /\ fpc = "sleep"
    /\ sleeps' = Append(sleeps, [after |-> Len(calls), duration |-> Pow2(attempt)])
    /\ Iterate(attempt + 1)
    /\ UNCHANGED <<fclient, furl, fmax, calls>>

NextFetch ==
    \/ FeedRequestStart /\ UNCHANGED <<pipeVars, walkVars, clsVars, prepVars, runs, trigVars, saving>>
    \/ FetchArticleDataStart /\ UNCHANGED <<pipeVars, walkVars, clsVars, prepVars, runs, trigVars, saving>>
    \/ \E resp \in (IF fclient = "feed" THEN FeedResponses ELSE ContentResponses) :
          Attempt(resp) /\ UNCHANGED <<pipeVars, walkVars, clsVars, prepVars, runs, trigVars, saving>>
    \/ Backoff /\ UNCHANGED <<pipeVars, walkVars, clsVars, prepVars, runs, trigVars, saving>>

SpecFetch == InitFetch /\ [][NextFetch]_vars

(***************************************************************************)
(* classifier.py: one call of ArticleClassifier.classify_article.  The     *)
(* topic list is the configured TOPICS; the model call fails, returns text *)
(* the parser rejects, or returns a topic, tags and a confidence.          *)
(***************************************************************************)
\* the default of TOPICS (config.py lines 53-58)
DefaultTopics ==
    {"AI/ML", "Programming Languages", "Web Development", "Databases",
     "Security/Privacy", "Startups/Business", "Hardware/IoT", "Science",
     "Open Source", "Career/Jobs"}

\* TOPICS as the environment can set it: the default list, or another one
TopicConfigs == {DefaultTopics, {"AI/ML", "Science"}}

\* the number of tags classify_article keeps (classifier.py line 104)
MaxTagsKept == 3

TagList(n) == [i \in 1..n |-> i]

LlmResponse(kind, topic, tags, confidence) ==
    [kind |-> kind, topic |-> topic, tags |-> tags, confidence |-> confidence]

\* what the call of the model and the parse of its answer can produce
LlmResponses ==
    {LlmResponse("error", "", <<>>, ""), LlmResponse("unparseable", "", <<>>, "")}
        \cup {LlmResponse("parsed", t, TagList(n), c) :
                  t \in DefaultTopics \cup {"Cooking"}, n \in 0..MaxTags,
                  c \in {"high", "low"}}

\* ArticleClassifier._add_default_classification
AddDefaultClassification ==
    [status |-> "returned", topic |-> FallbackTopic, tags |-> <<>>,
     classification_confidence |-> "low"]

\* classify_article lines 97-99
ValidateTopic(topic, configured) ==
    IF topic \notin configured THEN FallbackTopic ELSE topic

\* classify_article lines 91-116: the answer of the model is handled
Classified(resp, configured) ==
    IF resp.kind = "parsed"
    THEN [status |-> "returned",
          topic |-> ValidateTopic(resp.topic, configured),
          tags |-> Truncate(resp.tags, MaxTagsKept),
          classification_confidence |-> resp.confidence]
    ELSE AddDefaultClassification

InitClassify ==
    /\ PipeIdle
    /\ WalkIdle
    /\ FetchIdle
    /\ PrepIdle
    /\ FirstRun
    /\ TrigIdle
    /\ SaveIdle
    /\ cpc = "idle"
    /\ topics \in TopicConfigs
    /\ carticle \in {[title |-> ""], [title |-> "a title"]}
    /\ llm_responses = <<>>
    /\ cresult = [status |-> "pending", topic |-> "", tags |-> <<>>,
                  classification_confidence |-> ""]

\* classify_article lines 71-91: called with the article; without a title
\* it returns the default classification, else it calls the model
ClassifyArticleStart ==
    /\ cpc = "idle"
    /\ IF carticle.title = ""
       THEN cpc' = "done" /\ cresult' = AddDefaultClassification
       ELSE cpc' = "called" /\ cresult' = cresult
    /\ UNCHANGED <<topics, carticle, llm_responses>>

\* classify_article lines 91-116: self.llm.ainvoke returns or raises
LlmReturns(resp) ==
    /\ cpc = "called"
    /\ llm_responses' = Append(llm_responses, resp)
    /\ cresult' = Classified(resp, topics)
    /\ cpc' = "done"
    /\ UNCHANGED <<topics, carticle>>

NextClassify ==
    \/ ClassifyArticleStart /\ UNCHANGED <<pipeVars, walkVars, fetchVars, prepVars, runs, trigVars, saving>>
    \/ \E resp \in LlmResponses :
          LlmReturns(resp) /\ UNCHANGED <<pipeVars, walkVars, fetchVars, prepVars, runs, trigVars, saving>>

SpecClassify == InitClassify /\ [][NextClassify]_vars

(***************************************************************************)
(* storage.py: one call of prepare_article_for_storage on an article with  *)
(* its content, a sequence of characters, or without content.              *)
(***************************************************************************)
\* CONTENT_SUMMARY_LENGTH (storage.py line 22)
CONTENT_SUMMARY_LENGTH == 2000

\* a text of n characters
TextOf(n, seed) == [i \in 1..n |-> (i * seed) % 7]

\* the contents fetch_article_data can give an article: None, or a text of
\* at least the minimum length; here the lengths around the cap
Contents ==
    {NoContent}
        \cup {[present |-> TRUE, text |-> TextOf(n, seed)] :
                  n \in {MinContentLength}
                        \cup ((CONTENT_SUMMARY_LENGTH - MaxAround)
                                  ..(CONTENT_SUMMARY_LENGTH + MaxAround)),
                  seed \in 1..MaxSeed}

\* bool(content)
Truthy(content) == content.present /\ content.text # <<>>

\* a summary that keeps the whole content
ContentSummary_Whole(content) ==
    IF Truthy(content) THEN content ELSE NoContent

\* storage.py line 100: content[:CONTENT_SUMMARY_LENGTH] if content else None
ContentSummary(content) ==
    IF Truthy(content)
    THEN [present |-> TRUE, text |-> Truncate(content.text, CONTENT_SUMMARY_LENGTH)]
    ELSE NoContent

\* storage.py line 99: len(content) if content else 0
ContentLength(content) == IF Truthy(content) THEN Len(content.text) ELSE 0

\* prepare_article_for_storage with the fields of the content
StoredRecord(article) ==
    PrepareArticleForStorage(article)
        @@ [content_length |-> ContentLength(article.content),
            content_summary |-> ContentSummary(article.content)]

InitPrepare ==
    /\ PipeIdle
    /\ WalkIdle
    /\ FetchIdle
    /\ ClsIdle
    /\ FirstRun
    /\ TrigIdle
    /\ SaveIdle
    /\ ppc = "idle"
    /\ \E c \in Contents :
          particle = [id |-> 1,
                      content_type |-> IF c.present THEN "article" ELSE "failed",
                      comment_count |-> 0, topic |-> FallbackTopic, content |-> c]
    /\ stored = [item_id |-> 0]

\* prepare_article_for_storage(article) returns
PrepareArticle ==
    /\ ppc = "idle"
    /\ stored' = StoredRecord(particle)
    /\ ppc' = "done"
    /\ UNCHANGED particle

NextPrepare ==
    PrepareArticle /\ UNCHANGED <<pipeVars, walkVars, fetchVars, clsVars, runs, trigVars, saving>>

SpecPrepare == InitPrepare /\ [][NextPrepare]_vars

\* crawl() has returned, has raised or was killed
RunEnded == pc = "Idle" /\ outcome \notin {"none", "running"}

(***************************************************************************)
(* api/crawl.py: POST /crawl/trigger queues run_crawler_task, which runs   *)
(* the crawler as a subprocess; main() of crawler.py parses the arguments, *)
(* constructs an HNCrawler and calls crawl().                              *)
(***************************************************************************)
\* one command-line argument: an option and its value
Arg(opt, val) == [opt |-> opt, val |-> val]

\* run_crawler_task lines 72-79: the arguments of the subprocess after
\* sys.executable -m app.crawler.crawler
CrawlerArgv(num_stories, force_refresh) == <<Arg("-n", num_stories)>>

\* main(): default of -n/--num
DefaultNum == 10

\* main() lines 190-195: argparse over the three options
ParseArgs(av) ==
    LET given(names) == {i \in DOMAIN av : av[i].opt \in names}
    IN  [num |-> IF given({"-n", "--num"}) = {} THEN DefaultNum
                 ELSE av[CHOOSE i \in given({"-n", "--num"}) :
                            \A j \in given({"-n", "--num"}) : j <= i].val,
         all |-> given({"--all"}) # {},
         stats |-> given({"--stats"}) # {}]

\* trigger_crawl lines 35-49: the task is queued and the endpoint answers
TriggerCrawl(req) ==
    /\ tpc = "idle"
    /\ tpc' = "queued"
    /\ request' = req
    /\ UNCHANGED argv

\* run_crawler_task lines 64-83: the subprocess is started
RunCrawlerTask ==
    /\ tpc = "queued"
    /\ tpc' = "spawned"
    /\ argv' = CrawlerArgv(request.num_stories, request.force_refresh)
    /\ UNCHANGED request

\* main() lines 186-211 in the subprocess: HNCrawler(max_stories=args.num)
\* and crawl(skip_existing=not args.all)
Main ==
    /\ tpc = "spawned"
    /\ ~ParseArgs(argv).stats
    /\ tpc' = "crawling"
    /\ StartRun(~ParseArgs(argv).all)
    /\ UNCHANGED <<request, argv>>

\* run_crawler_task lines 85-88: the subprocess has ended
TaskReturns ==
    /\ tpc = "crawling"
    /\ RunEnded
    /\ tpc' = "finished"
    /\ UNCHANGED <<request, argv, pipeVars>>

\* run_crawler_task lines 82, 90-91: the subprocess is killed at the timeout
TaskTimesOut ==
    /\ tpc = "crawling"
    /\ outcome = "running"
    /\ tpc' = "timed_out"
    /\ Finish("killed", <<>>)
    /\ UNCHANGED <<request, argv, skip_existing, enable_classification, story_ids,
                   stories, stats, articlesFile, idsFile, failedFile, hist>>

\* the steps of the crawl of the subprocess, its feed cut to args.num ids
Crawling(n) ==
    \/ \E ids \in SeqsUpTo(Ids, n) : FetchIdsReturn(ids)
    \/ \E i \in 1..n, raw \in RawItems : DetailDone(i, raw)
    \/ DetailsGathered
    \/ \E i \in 1..n, ct \in ContentTypes : ContentDone(i, ct)
    \/ ContentGathered
    \/ \E i \in 1..n, cc \in 0..MaxCommentCount : CommentsDone(i, cc)
    \/ \E wa \in WriteFaults, wi \in WriteFaults, wf \in WriteFaults :
          CommentsGathered(wa, wi, wf)
    \/ \E i \in 1..n, llm \in LlmOutcomes : ClassifyDone(i, llm)
    \/ \E wa \in WriteFaults, wi \in WriteFaults, wf \in WriteFaults :
          ClassifyGathered(wa, wi, wf)

NextTrigger ==
    \/ \E req \in [num_stories : 1..MaxFeedRuns, force_refresh : BOOLEAN] :
          TriggerCrawl(req)
             /\ UNCHANGED <<pipeVars, walkVars, fetchVars, clsVars, prepVars, runs, saving>>
    \/ RunCrawlerTask
          /\ UNCHANGED <<pipeVars, walkVars, fetchVars, clsVars, prepVars, runs, saving>>
    \/ Main /\ UNCHANGED <<walkVars, fetchVars, clsVars, prepVars, runs, saving>>
    \/ TaskReturns /\ UNCHANGED <<walkVars, fetchVars, clsVars, prepVars, runs, saving>>
    \/ TaskTimesOut /\ UNCHANGED <<walkVars, fetchVars, clsVars, prepVars, runs, saving>>
    \/ /\ tpc = "crawling"
       /\ Crawling(ParseArgs(argv).num)
       /\ UNCHANGED <<walkVars, unitVars>>

SpecTrigger == Init /\ [][NextTrigger]_vars

(***************************************************************************)
(* Two crawler processes on one store: every request to the trigger        *)
(* endpoint starts its own subprocess (api/crawl.py lines 39-43, 72-83)    *)
(* and nothing keeps two of them from running at once.  Of each run the    *)
(* steps that touch the store are kept: the four file operations of        *)
(* save_articles(prepared_articles, append=True), which the other process  *)
(* can interleave with.                                                    *)
(***************************************************************************)
\* a story as a run hands it to prepare_article_for_storage
CrawledStory(id) ==
    [id |-> id, type |-> "story", content_type |-> "article",
     comment_count |-> 0, topic |-> FallbackTopic]

\* the prepared batch of a run that crawled these ids
BatchOf(ids) == PrepareAll([i \in DOMAIN ids |-> CrawledStory(ids[i])])

\* save_articles lines 149-155: load_articles() in process p
LoadExisting(p, articles) ==
    /\ saving[p].pc = "idle"
    /\ saving' = [saving EXCEPT ![p] = [pc |-> "loaded", articles |-> articles,
                                        existing |-> LoadArticles(articlesFile),
                                        crawled_ids |-> {}]]
    /\ UNCHANGED <<articlesFile, idsFile>>

\* save_articles lines 153-170: the store is rewritten from what was loaded
WriteArticles(p) ==
    /\ saving[p].pc = "loaded"
    /\ LET existing == saving[p].existing
           all_articles == existing \o NewArticles(saving[p].articles, existing)
       IN  articlesFile' = WriteFile(articlesFile, all_articles, <<>>, "ok")
    /\ saving' = [saving EXCEPT ![p].pc = "written"]
    /\ UNCHANGED idsFile

\* save_articles lines 173-174: load_crawled_ids() and update
LoadIds(p) ==
    /\ saving[p].pc = "written"
    /\ saving' = [saving EXCEPT ![p].pc = "ids_loaded",
                                ![p].crawled_ids = LoadCrawledIds(idsFile)
                                                     \cup ItemIds(saving[p].articles)]
    /\ UNCHANGED <<articlesFile, idsFile>>

\* save_articles line 175: save_crawled_ids(crawled_ids)
WriteIds(p) ==
    /\ saving[p].pc = "ids_loaded"
    /\ idsFile' = SaveCrawledIds(idsFile, saving[p].crawled_ids, "ok")
    /\ saving' = [saving EXCEPT ![p].pc = "done"]
    /\ UNCHANGED articlesFile

\* what the steps of the two processes leave alone
OverlapUnchanged ==
    UNCHANGED <<pc, skip_existing, enable_classification, story_ids, stories, tasks,
                stats, outcome, returned, failedFile, hist, walkVars, fetchVars,
                clsVars, prepVars, runs, trigVars>>

NextOverlap ==
    \/ \E p \in Procs, ids \in SeqsUpTo(Ids, MaxFeed) \ {<<>>} :
          LoadExisting(p, BatchOf(ids)) /\ OverlapUnchanged
    \/ \E p \in Procs : WriteArticles(p) /\ OverlapUnchanged
    \/ \E p \in Procs : LoadIds(p) /\ OverlapUnchanged
    \/ \E p \in Procs : WriteIds(p) /\ OverlapUnchanged

SpecOverlap == Init /\ [][NextOverlap]_vars

(***************************************************************************)
(* Definitions shared by the statements about one run.                     *)
(***************************************************************************)
\* the DedupSet and the article list persisted when the run started
DedupAtStart == hist.idsAtStart.data
ArticlesAtStart == hist.articlesAtStart.data

\* number of records of id in an article list
RecordsOf(articles, id) == Cardinality({i \in DOMAIN articles : articles[i].item_id = id})

NoWriteFault == hist.writes = <<"ok", "ok", "ok">>

(***************************************************************************)
(* C1: in a default (skip-existing) run, an id that is in the persisted    *)
(* DedupSet when the run starts and appears in the feed gets no            *)
(* item-detail fetch, no content fetch, no comment fetch and no new        *)
(* article record; when every id of the feed is already in the DedupSet    *)
(* the article store is left as it was.                                    *)
(***************************************************************************)
C1_DedupIdsNotRefetched ==
    (skip_existing /\ outcome # "none") =>
        /\ \A id \in DedupAtStart \cap Range(hist.feed) :
              /\ id \notin hist.detailFetched
              /\ id \notin hist.contentFetched
              /\ id \notin hist.commentFetched
              /\ RecordsOf(articlesFile.data, id) <= RecordsOf(ArticlesAtStart, id)
        /\ (RunEnded /\ hist.feed # <<>> /\ Range(hist.feed) \subseteq DedupAtStart) =>
              /\ articlesFile = hist.articlesAtStart
              /\ hist.detailFetched = {}

\* a default run that persisted a batch although its feed held an id of the DedupSet
C1_Witness ==
    /\ skip_existing
    /\ outcome = "done"
    /\ DedupAtStart \cap Range(hist.feed) # {}
    /\ Len(articlesFile.data) > Len(ArticlesAtStart)

(***************************************************************************)
(* C2: the stages of one run execute in the strict order FetchIds,         *)
(* FilterNew, FetchDetails, FetchContent, ParseComments, Classify (when    *)
(* enabled), PersistBatch, none twice; a stage starts only when the        *)
(* previous one has finished for every item of the batch, and no item is   *)
(* classified or persisted before its content fetch and its comment walk   *)
(* have both finished.                                                     *)
(***************************************************************************)
StageOrder == <<"FetchIds", "FilterNew", "FetchDetails", "FetchContent",
                "ParseComments", "Classify", "PersistBatch">>

StageRank(st) == CHOOSE k \in DOMAIN StageOrder : StageOrder[k] = st

StagesInOrder ==
    \A k \in DOMAIN hist.stages :
        /\ hist.stages[k] \in Range(StageOrder)
        /\ k = 1 => hist.stages[k] = "FetchIds"
        /\ k > 1 =>
             \/ StageRank(hist.stages[k]) = StageRank(hist.stages[k - 1]) + 1
             \/ /\ ~enable_classification
                /\ hist.stages[k - 1] = "ParseComments"
                /\ hist.stages[k] = "PersistBatch"

ContentFinished(s) == s.content_type # "unset"
WalkFinished(s) == s.comment_count >= 0

StageInputsComplete ==
    /\ pc = "FetchContent" => \A i \in DOMAIN stories : stories[i].type = "story"
    /\ pc = "ParseComments" => \A i \in DOMAIN stories : ContentFinished(stories[i])
    /\ pc = "Classify" =>
          \A i \in DOMAIN stories : ContentFinished(stories[i]) /\ WalkFinished(stories[i])
    /\ "PersistBatch" \in Range(hist.stages) =>
          \A i \in DOMAIN stories :
             /\ ContentFinished(stories[i])
             /\ WalkFinished(stories[i])
             /\ enable_classification => stories[i].topic # "unset"

C2_StagesInStrictOrder == StagesInOrder /\ StageInputsComplete

\* a run of two stories that went through every stage, Classify included
C2_Witness ==
    /\ outcome = "done"
    /\ hist.stages = StageOrder
    /\ Len(stories) = 2

(***************************************************************************)
(* C3 as stated: content fetch and comment walk of an item run             *)
(* concurrently, that is, while content fetches of the batch are in        *)
(* flight the comment walks of its items have been launched too.           *)
(***************************************************************************)
C3_WalksLaunchedWithContentFetches ==
    pc = "FetchContent" =>
        \A i \in DOMAIN stories : stories[i].id \in hist.commentFetched

(***************************************************************************)
(* C3 amended: the content fetches of the batch run concurrently with each *)
(* other and so do its comment walks, but the two run one after the        *)
(* other: a comment walk is launched only when the content fetch of every  *)
(* item of the batch has finished, so the content fetch and the comment    *)
(* walk of an item are never in flight together.                           *)
(***************************************************************************)
C3_WalksAfterAllContentFetches ==
    /\ hist.commentFetched # {} =>
          \A i \in DOMAIN stories : ContentFinished(stories[i])
    /\ pc = "FetchContent" => hist.commentFetched = {}

\* the comment walks of two stories in flight together, every content fetch finished
C3_Witness ==
    /\ pc = "ParseComments"
    /\ Len(stories) = 2
    /\ \A i \in DOMAIN tasks : tasks[i] = "inflight"

(***************************************************************************)
(* C4 as stated: per-item failures never abort the run: a run that got     *)
(* past FilterNew and met no storage fault reaches PersistBatch, persists  *)
(* every story that passed FetchDetails and reports as content_failed the  *)
(* number of items whose outcome is failed.                                *)
(***************************************************************************)
PastFilterNew == "FetchDetails" \in Range(hist.stages)

FailedCount == CountIf(stories, LAMBDA s : s.content_type = "failed")

BatchPersisted ==
    /\ "PersistBatch" \in Range(hist.stages)
    /\ \A k \in DOMAIN hist.batch : hist.batch[k] \in ItemIds(articlesFile.data)
    /\ stats.content_failed = FailedCount

C5_WriteFailurePropagates ==
    /\ (hist.writes # <<>> /\ hist.writes[1] \in {"fail_open", "fail_mid"}) =>
          /\ outcome = "error"
          /\ idsFile = hist.idsAtStart
    /\ idsFile # hist.idsAtStart =>
          /\ hist.writes # <<>>
          /\ hist.writes[1] = "ok"
          /\ articlesFile.state = "valid"
          /\ \A k \in DOMAIN hist.batch : hist.batch[k] \in ItemIds(articlesFile.data)

\* a run whose batch was not empty and whose article-store write failed
C5_Witness ==
    /\ outcome = "error"
    /\ hist.batch # <<>>
    /\ hist.writes[1] = "fail_mid"
    /\ \E k \in DOMAIN hist.batch : hist.batch[k] \notin DedupAtStart

(***************************************************************************)
(* C6: each of the three persisted files is rewritten atomically: it never *)
(* holds an empty or partial document, also when the process is killed or  *)
(* the write fails in the middle of a save.                                *)
(***************************************************************************)
C6_FilesRewrittenAtomically ==
    /\ articlesFile.state # "partial"
    /\ idsFile.state # "partial"
    /\ failedFile.state # "partial"

(***************************************************************************)
(* C7: save_articles in append mode leaves every existing record unchanged *)
(* and in place, appends exactly the input articles whose id is not in the *)
(* persisted list, and, when the article-store write succeeds, adds every  *)
(* id of the input batch to the DedupSet.                                  *)
(***************************************************************************)
\* the batch handed to save_articles by the run
InputBatch == PrepareAll(stories)

ArticleWriteOk == hist.writes # <<>> /\ hist.writes[1] = "ok"

AppendedExactlyTheNew ==
    LET before == ArticlesAtStart
        after == articlesFile.data
        fresh == SelectSeq(InputBatch, LAMBDA a : \A k \in DOMAIN before : before[k].item_id # a.item_id)
    IN  /\ articlesFile.state = "valid"
        /\ Len(after) = Len(before) + Len(fresh)
        /\ \A k \in DOMAIN before : after[k] = before[k]
        /\ \A k \in DOMAIN fresh : after[Len(before) + k] = fresh[k]

C7_AppendAndRecordIds ==
    ArticleWriteOk =>
        /\ AppendedExactlyTheNew
        /\ idsFile.state = "valid"
        /\ ItemIds(InputBatch) \subseteq idsFile.data


(***************************************************************************)
(* Definitions shared by the statements about one comment walk.            *)
(***************************************************************************)
\* the top-level comments are selected once the first fetch has returned
TopSelected == wpc \in {"replies", "done"}

\* position of the comment with this id in a list of comments
PosOf(list, id) == CHOOSE i \in DOMAIN list : list[i].id = id

IdsOf(list) == {list[i].id : i \in DOMAIN list}

KeptIds == IdsOf(top_comments)
DroppedTop == {c \in Range(fetchedTop) : c.id \notin KeptIds}

LineIds == IdsOf(formatted_lines)
HighIds == IdsOf(high_score_comments)

TopLines == SelectSeq(formatted_lines, LAMBDA l : l.indent = 0)

\* the lines of the replies formatted under the top-level comment p
ReplyLinesOf(p) ==
    SelectSeq(formatted_lines, LAMBDA l : l.indent > 0 /\ l.id \in Range(TreeKids(p)))

\* index of the last top-level line before position i (0 when none)
ParentLine(i) ==
    LET before == {j \in 1..(i - 1) : formatted_lines[j].indent = 0}
    IN  IF before = {} THEN 0 ELSE CHOOSE j \in before : \A k \in before : k <= j

\* C8: for every list of fetched top-level comments and every maxTopLevel the
\* walker keeps the maxTopLevel highest-scoring comments (all of them when
\* there are fewer): each kept comment was fetched, no dropped comment scores
\* higher than a kept one, the kept ones are in descending score order with
\* equal scores in their fetch order, and a dropped comment appears neither
\* among the formatted lines nor among the high-value comments.
C8_KeepsHighestInOrder ==
    TopSelected =>
        /\ Len(top_comments) =
               (IF Len(fetchedTop) < parser.max_top_comments
                THEN Len(fetchedTop) ELSE parser.max_top_comments)
        /\ Range(top_comments) \subseteq Range(fetchedTop)
        /\ Cardinality(KeptIds) = Len(top_comments)
        /\ \A k \in Range(top_comments), d \in DroppedTop : k.score >= d.score
        /\ \A i, j \in DOMAIN top_comments :
               i < j =>
                   \/ top_comments[i].score > top_comments[j].score
                   \/ /\ top_comments[i].score = top_comments[j].score
                      /\ PosOf(fetchedTop, top_comments[i].id)
                             < PosOf(fetchedTop, top_comments[j].id)
        /\ \A d \in DroppedTop : d.id \notin LineIds /\ d.id \notin HighIds

\* C8 happens: a finished walk that dropped a comment scoring at least the
\* threshold, whose score equals that of a kept comment, and that emitted
\* the kept comments in an order other than the fetch order.
C8_Witness ==
    /\ wpc = "done"
    /\ \E d \in DroppedTop :
           /\ d.score >= parser.high_score_threshold
           /\ \E k \in Range(top_comments) : k.score = d.score
    /\ \E i, j \in DOMAIN top_comments :
           i < j /\ top_comments[i].id > top_comments[j].id

\* C9: a walk never fetches or formats an item deeper than one reply level
\* (the kids of replies are never fetched), includes at most maxTopLevel
\* top-level comments and at most maxRepliesPerComment replies under each of
\* them, and each reply stands at indent 1 after its own parent and before
\* the next top-level comment.
C9_OneReplyLevelBounded ==
    /\ fetched \cap DeeperIds = {}
    /\ LineIds \cap DeeperIds = {}
    /\ Len(TopLines) <= parser.max_top_comments
    /\ \A i \in DOMAIN formatted_lines :
          LET l == formatted_lines[i]
          IN  \/ l.indent = 0 /\ l.id \in KeptIds
              \/ /\ l.indent = 1
                 /\ ParentLine(i) > 0
                 /\ l.id \in Range(TreeKids(formatted_lines[ParentLine(i)].id))
    /\ \A p \in KeptIds : Len(ReplyLinesOf(p)) <= parser.max_replies

\* C9 happens: a finished walk in which the feed returned more replies of a
\* comment than max_replies, a formatted reply has a kid of its own, and a
\* top-level comment follows the replies of another.
C9_Witness ==
    /\ wpc = "done"
    /\ \E r \in DOMAIN fetchedReplies :
           Len(fetchedReplies[r].comments) > parser.max_replies
    /\ \E i \in DOMAIN formatted_lines :
           /\ formatted_lines[i].indent = 1
           /\ TreeKids(formatted_lines[i].id) # <<>>
    /\ \E i \in DOMAIN formatted_lines :
           /\ i > 1
           /\ formatted_lines[i].indent = 0
           /\ formatted_lines[i - 1].indent = 1

\* C10: the high-value comments are exactly the selected top-level comments
\* and selected replies that score at least the threshold, in the order
\* they were selected, and the count the walk returns is the number of
\* top-level comments included (replies are not counted).
C10_HighValueExactlyAtThreshold ==
    /\ high_score_comments =
           LET high == SelectSeq(formatted_lines,
                                 LAMBDA l : l.score >= parser.high_score_threshold)
           IN  [i \in DOMAIN high |-> [id |-> high[i].id, score |-> high[i].score]]
    /\ wpc = "done" => comment_count = Len(TopLines)

\* C10 happens: a finished walk that selected a comment scoring exactly the
\* threshold and one scoring one less, found a high-value reply, and
\* returned a count smaller than the number of lines.
C10_Witness ==
    /\ wpc = "done"
    /\ \E l \in Range(formatted_lines) :
           l.score = parser.high_score_threshold /\ l.id \in HighIds
    /\ \E l \in Range(formatted_lines) :
           l.score = parser.high_score_threshold - 1 /\ l.id \notin HighIds
    /\ \E l \in Range(formatted_lines) : l.indent = 1 /\ l.id \in HighIds
    /\ comment_count < Len(formatted_lines)
    /\ comment_count > 0

(***************************************************************************)
(* Definitions shared by the statements about one request.                 *)
(***************************************************************************)
OnBlockedDomain(u) ==
    u.kind = "ok" /\ \E d \in skip_domains : Contains(Lower(u.netloc), d)

\* the name of the blocked extension the path of u ends in, if any
BlockedExtensionOf(u) ==
    IF u.kind = "ok" /\ Len(u.path) >= 2 /\ u.path[Len(u.path) - 1] = "."
       /\ <<".", LowerToken(u.path[Len(u.path)])>> \in skip_extensions
    THEN {LowerToken(u.path[Len(u.path)])}
    ELSE {}

\* the outcome tags the skip policy allows for u; none when u is to be fetched
SkipTags(u) ==
    (IF u.kind = "empty" THEN {"no-url"} ELSE {})
        \cup (IF u.kind = "unparseable" THEN {"invalid-url"} ELSE {})
        \cup (IF OnBlockedDomain(u) THEN {"video"} ELSE {})
        \cup BlockedExtensionOf(u)

\* C11: for an item whose url is empty, unparseable, on a blocked domain or
\* ends in a blocked extension, fetch_article_data makes no network call
\* (and takes no backoff sleep) and tags the item with the typed outcome:
\* no-url, invalid-url, video, or the extension name without its dot.
C11_SkippedUrlMakesNoCall ==
    (fclient = "content" /\ SkipTags(furl) # {}) =>
        /\ calls = <<>>
        /\ sleeps = <<>>
        /\ fpc \in {"idle", "done"}
        /\ fpc = "done" =>
              /\ fresult.status = "returned"
              /\ fresult.value = "absent"
              /\ fresult.content_type \in SkipTags(furl)

\* C11 happens: fetch_article_data has returned for a url on an allowed
\* domain whose path ends in an upper-case blocked extension.
C11_Witness ==
    /\ fclient = "content"
    /\ fpc = "done"
    /\ ~OnBlockedDomain(furl)
    /\ furl.kind = "ok"
    /\ furl.path[Len(furl.path)] = "ZIP"
    /\ fresult.content_type = "zip"

\* an attempt that ended in a timeout, a 5xx response or a network error
TransientFailure(resp) ==
    \/ resp.kind \in {"timeout", "neterror"}
    \/ resp.kind = "status" /\ resp.code >= 500

LastCall == calls[Len(calls)]

GaveUp ==
    /\ fresult.status = "returned"
    /\ fresult.value = "absent"
    /\ fclient = "content" => fresult.content_type = "failed"

\* C12: for every request of the feed client and of the content fetcher the
\* number of network attempts never exceeds max_retries, nothing is raised,
\* and when the last attempt fails (timeout, 5xx, network error) the call
\* returns absent (feed) or failed (content).
C12_AttemptsBoundedNoRaise ==
    /\ Len(calls) <= fmax
    /\ fresult.status # "raised"
    /\ (fpc = "done" /\ calls # <<>> /\ TransientFailure(LastCall)) => GaveUp

\* C12 happens: a content request that used all of its three attempts on a
\* timeout, a 5xx response and a network error, and returned failed.
C12_Witness ==
    /\ fclient = "content"
    /\ fpc = "done"
    /\ fmax = 3
    /\ Len(calls) = fmax
    /\ \E i \in DOMAIN calls : calls[i].kind = "timeout"
    /\ \E i \in DOMAIN calls : calls[i].kind = "neterror"
    /\ \E i \in DOMAIN calls : calls[i].kind = "status" /\ calls[i].code >= 500
    /\ fresult.content_type = "failed"

NotFound(resp) == resp.kind = "status" /\ resp.code = 404

\* C13: in the feed client and in the content fetcher a not-found response
\* ends the request as a failure after that single attempt: it is the last
\* call, the request is over with absent/failed, and no backoff sleep
\* follows it.
C13_NotFoundEndsRequest ==
    \A i \in DOMAIN calls :
        NotFound(calls[i]) =>
            /\ i = Len(calls)
            /\ fpc = "done"
            /\ GaveUp
            /\ \A k \in DOMAIN sleeps : sleeps[k].after < i

\* a 200 response whose body has the minimum length
Success(resp) ==
    resp.kind = "status" /\ resp.code = 200 /\ resp.len >= MinContentLength

\* C14: a content fetch of a url that is not skipped whose every attempt
\* fails, up to max_retries attempts, yields failed; one whose first
\* max_retries - 1 attempts fail and whose last attempt succeeds yields
\* article with the content of the successful attempt.
C14_ExhaustionAndLastAttemptSuccess ==
    (fclient = "content" /\ fpc = "done" /\ SkipTags(furl) = {}
         /\ Len(calls) = fmax) =>
        /\ (\A i \in DOMAIN calls : ~Success(calls[i])) =>
               fresult.content_type = "failed" /\ fresult.value = "absent"
        /\ (fmax >= 1 /\ Success(LastCall)
               /\ \A i \in 1..(fmax - 1) : ~Success(calls[i])) =>
               /\ fresult.content_type = "article"
               /\ fresult.value = "content"
               /\ fresult.len = LastCall.len

\* C14 happens: two failed attempts, two backoff sleeps, and a third attempt
\* that succeeds.
C14_Witness ==
    /\ fclient = "content"
    /\ fpc = "done"
    /\ fmax = 3
    /\ Len(calls) = 3
    /\ Len(sleeps) = 2
    /\ Success(calls[3])
    /\ fresult.content_type = "article"

OutcomeTags ==
    {"article", "failed", "video", "no-url", "invalid-url"}
        \cup {StripDot(ext) : ext \in skip_extensions}

\* C15: fetch_article_data never raises and gives the item exactly one
\* outcome tag of article, failed, video, a blocked extension name, no-url,
\* invalid-url; the content of its result is non-empty if and only if the
\* tag is article.
C15_OneOutcomeContentIffArticle ==
    fclient = "content" =>
        /\ fresult.status \in {"pending", "returned"}
        /\ fpc = "done" <=> fresult.status = "returned"
        /\ fpc = "done" =>
              /\ fresult.content_type \in OutcomeTags
              /\ fresult.len > 0 <=> fresult.content_type = "article"
              /\ fresult.value = "content" <=> fresult.content_type = "article"

\* C15 happens: fetch_article_data has returned failed, without content,
\* for a 200 response whose body is too short.
C15_Witness ==
    /\ fclient = "content"
    /\ fpc = "done"
    /\ calls # <<>>
    /\ LastCall.kind = "status" /\ LastCall.code = 200
    /\ LastCall.len > 0
    /\ fresult.content_type = "failed"
    /\ fresult.len = 0

(***************************************************************************)
(* C16: every article that leaves the classification stage has a topic of  *)
(* the enumerated topic set; when the call fails, its output cannot be     *)
(* parsed or its topic is outside the set, the topic is the fixed fallback *)
(* value; at most three tags are kept; and no error is propagated.         *)
(***************************************************************************)
C16_TopicInEnumeratedSet ==
    cpc = "done" =>
        /\ cresult.status = "returned"
        /\ cresult.topic \in topics
        /\ Len(cresult.tags) <= 3
        /\ (llm_responses = <<>>
               \/ llm_responses[1].kind # "parsed"
               \/ llm_responses[1].topic \notin topics) =>
               cresult.topic = "Open Source"

(***************************************************************************)
(* C17: when classification is disabled for a run, every item the run      *)
(* persists carries the fixed fallback topic, the value a classification   *)
(* failure produces.                                                       *)
(***************************************************************************)
C17_DisabledKeepsFallbackTopic ==
    (outcome = "done" /\ ~enable_classification) =>
        /\ \A k \in DOMAIN returned : returned[k].topic = "Open Source"
        /\ \A k \in DOMAIN articlesFile.data :
              k > Len(ArticlesAtStart) => articlesFile.data[k].topic = "Open Source"

\* number of ids of the feed list, with repetitions, that were in the
\* DedupSet when the run started
FeedIdsInDedup == CountIf(hist.feed, LAMBDA sid : sid \in DedupAtStart)

ContentCountersSum ==
    stats.content_success + stats.content_failed + stats.content_skipped

\* the counters that do not depend on the filter of the run
CountersOfDoneRun ==
    /\ stats.total_fetched = Len(hist.batch)
    /\ ContentCountersSum = stats.total_fetched
    /\ stats.new_articles = Len(returned)
    /\ stats.classified = (IF enable_classification THEN Len(hist.batch) ELSE 0)

\* C18: after a run that reaches Done, skipped_existing is the number of
\* feed ids the filter of the run found in the DedupSet (none when the run
\* does not filter), total_fetched the number of stories that passed
\* FetchDetails, the three content counters add up to total_fetched,
\* new_articles is the number of articles handed to PersistBatch, and
\* classified counts only the items the classification stage processed.
C18_CountersOfDoneRun ==
    outcome = "done" =>
        /\ stats.skipped_existing = (IF skip_existing THEN FeedIdsInDedup ELSE 0)
        /\ CountersOfDoneRun

\* every id of a non-empty feed list is in the DedupSet
AllFeedInDedup == hist.feed # <<>> /\ Range(hist.feed) \subseteq DedupAtStart

FilesAsAtStart ==
    /\ articlesFile = hist.articlesAtStart
    /\ idsFile = hist.idsAtStart
    /\ failedFile = hist.failedAtStart

\* C19: when every id of the feed list is already in the DedupSet a default
\* run ends early without error: it returns no article, makes no item
\* detail, content, comment or classification call and leaves the three
\* files as they were; and in every run no file is written before
\* PersistBatch.
C19_EarlyExitWritesNothing ==
    /\ (skip_existing /\ AllFeedInDedup /\ outcome # "none") =>
          /\ outcome = "no_new"
          /\ returned = <<>>
          /\ hist.detailFetched = {}
          /\ hist.contentFetched = {}
          /\ hist.commentFetched = {}
          /\ hist.classifyCalled = {}
          /\ FilesAsAtStart
    /\ "PersistBatch" \notin Range(hist.stages) => FilesAsAtStart

\* C19 happens: a default run over a store that holds an article ended
\* early because its feed held only that article's id.
C19_Witness ==
    /\ outcome = "no_new"
    /\ skip_existing
    /\ AllFeedInDedup
    /\ ArticlesAtStart # <<>>
    /\ stats.skipped_existing = Len(hist.feed)

(***************************************************************************)
(* C20: the stored content_summary is the first cap characters of the      *)
(* fetched content (exactly cap characters when the content is longer than *)
(* the cap, the whole content otherwise; none when there is no content),   *)
(* content_length is the length of the untruncated content, and the full   *)
(* content is not a field of the stored record.                            *)
(***************************************************************************)
C20_SummaryIsPrefixLengthIsOriginal ==
    ppc = "done" =>
        LET text == particle.content.text
            summary == stored.content_summary
        IN  /\ "content" \notin DOMAIN stored
            /\ IF particle.content.present
               THEN /\ summary.present
                    /\ Len(summary.text) = (IF Len(text) > 2000 THEN 2000 ELSE Len(text))
                    /\ \A i \in 1..Len(summary.text) : summary.text[i] = text[i]
                    /\ stored.content_length = Len(text)
               ELSE /\ ~summary.present
                    /\ stored.content_length = 0

\* C20 happens: an article whose content is longer than the cap has been
\* prepared: its summary has the cap's length and its content_length more.
C20_Witness ==
    /\ ppc = "done"
    /\ Len(particle.content.text) > 2000
    /\ Len(stored.content_summary.text) = 2000
    /\ stored.content_length > 2000

(***************************************************************************)
(* C21: the failed-item log is append-only: after a run that persisted its *)
(* batch the log holds every entry it held when the run started, unchanged *)
(* and in order, followed by one entry for each story of the run whose     *)
(* content outcome is failed; entries are never merged or removed, also    *)
(* when an id that is already in the log fails again.                      *)
(***************************************************************************)
\* the entries the log held when the run started
FailedAtStart == hist.failedAtStart.data

C21_FailedLogAppendOnly ==
    (RunEnded /\ outcome = "done") =>
        /\ failedFile.state # "partial"
        /\ failedFile.data = FailedAtStart \o FailedItems(stories)

(***************************************************************************)
(* Runs and requests in which every network call and every                 *)
(* classification call returns or times out (each has a timeout:           *)
(* hn_api.py line 32, fetcher.py line 84) and the event loop resumes every *)
(* coroutine that can go on.                                               *)
(***************************************************************************)
SpecLive == Spec /\ WF_vars(Next)

SpecFetchLive == SpecFetch /\ WF_vars(NextFetch)

\* the run returned before FetchDetails or after it found no story
EarlyExit == outcome \in {"empty_feed", "no_new", "no_stories"}

\* a write of PersistBatch failed or the process was killed during it
WriteFailed == hist.writes # <<>> /\ ~NoWriteFault

NoStageTwice ==
    \A j, k \in DOMAIN hist.stages : j # k => hist.stages[j] # hist.stages[k]

(***************************************************************************)
(* C22: every run terminates when each network and classification call     *)
(* returns or times out: a started run reaches Done or an early-exit       *)
(* return, and no stage is entered twice.                                  *)
(***************************************************************************)
C22_RunReachesDoneOrEarlyExit ==
    /\ (outcome = "running") ~> (RunEnded /\ (outcome = "done" \/ EarlyExit))
    /\ []NoStageTwice

(***************************************************************************)
(* C22 amended: every run terminates when each network and classification  *)
(* call returns or times out: a started run reaches Done or an early-exit  *)
(* return, or ends in PersistBatch on a failed write; no stage is entered  *)
(* twice.                                                                  *)
(***************************************************************************)
C22_RunTerminates ==
    /\ (outcome = "running") ~>
          (RunEnded /\ (outcome = "done" \/ EarlyExit \/ WriteFailed))
    /\ []NoStageTwice

\* a run that went through every stage and ended, with a story whose
\* content fetch had failed
C22_Witness ==
    /\ RunEnded
    /\ outcome = "done"
    /\ hist.stages = StageOrder
    /\ \E i \in DOMAIN stories : stories[i].content_type = "failed"

\* one request: it returns after at most max_retries attempts
C22_RequestTerminates ==
    /\ (fpc # "idle") ~> (fpc = "done")
    /\ [](Len(calls) <= fmax)

\* one comment walk: after the fetch of the top-level comments it fetches
\* replies at most once for each selected top-level comment, each time for a
\* later one (under SpecWalk)
C22_WalkBounded ==
    /\ [][(wpc = "replies" /\ wpc' = "replies") => idx' > idx]_vars
    /\ [](wpc = "replies" => idx \in DOMAIN top_comments)
    /\ [](Len(fetchedReplies) <= parser.max_top_comments)

(***************************************************************************)
(* C23: during one comment walk the number of item fetches in flight never *)
(* exceeds max_top_comments, for the top-level comments and for the        *)
(* replies alike, however many kids the story or the comment has.          *)
(***************************************************************************)
C23_InflightBoundedByMaxTop == Cardinality(inflight) <= parser.max_top_comments

(***************************************************************************)
(* C24: a crawl started through the trigger endpoint with force_refresh =  *)
(* true runs with skip_existing disabled, so that ids in the DedupSet are  *)
(* crawled again; with force_refresh = false it runs as a default          *)
(* skip-existing run.                                                      *)
(***************************************************************************)
\* the subprocess of the request has called crawl()
CrawlTriggered == tpc \in {"crawling", "finished", "timed_out"}

C24_ForceRefreshDisablesSkip ==
    CrawlTriggered =>
        /\ skip_existing = ~request.force_refresh
        /\ (request.force_refresh /\ outcome = "done")
              => Range(hist.feed) \subseteq hist.detailFetched

(***************************************************************************)
(* C25: the persisted state only grows: no step of a run, also a save made *)
(* when the existing article file or DedupSet file cannot be read, removes *)
(* or changes an article record of the store or removes an id of the       *)
(* DedupSet.                                                               *)
(***************************************************************************)
\* every record of article file f is a record of article file g
RecordsKept(f, g) ==
    \A k \in DOMAIN f.data : \E j \in DOMAIN g.data : g.data[j] = f.data[k]

C25_PersistedStateOnlyGrows ==
    [][/\ RecordsKept(articlesFile, articlesFile')
       /\ idsFile.data \subseteq idsFile'.data]_vars

(***************************************************************************)
(* C26: when two runs on the same store overlap in time, then after both   *)
(* have finished the article store holds a record for every id that either *)
(* run added to the DedupSet: no save overwrites the records appended by   *)
(* the other run.                                                          *)
(***************************************************************************)
BothSaved == \A p \in Procs : saving[p].pc = "done"

SaveReturned == ArticleWriteOk /\ hist.writes[2] # "kill"

C27_ReturnedSaveRecordsIds ==
    SaveReturned => ItemIds(InputBatch) \subseteq LoadCrawledIds(idsFile)

(***************************************************************************)
(* C28: after any sequence of append-mode saves, whatever the input        *)
(* batches (also a batch in which an id occurs twice, as when the feed     *)
(* list repeats an id), the persisted article list holds at most one       *)
(* record for each id.                                                     *)
(***************************************************************************)
C28_OneRecordPerId ==
    \A id \in Ids : RecordsOf(LoadArticles(articlesFile), id) <= 1

(***************************************************************************)
(* C29: after any sequence of runs on one orchestrator instance the        *)
(* counters describe the most recent run only: the three content counters  *)
(* add up to total_fetched, and total_fetched, new_articles,               *)
(* comments_parsed and classified hold the values of that run, which are 0 *)
(* when the run ended early.                                               *)
(***************************************************************************)
\* the run returned: from an early exit or from Done
RunReturned == RunEnded /\ (outcome = "done" \/ EarlyExit)

CommentsOfRun == SumSeq([i \in DOMAIN stories |-> stories[i].comment_count])

C29_CountersOfMostRecentRun ==
    RunReturned =>
        /\ ContentCountersSum = stats.total_fetched
        /\ IF outcome = "done"
           THEN /\ stats.total_fetched = Len(hist.batch)
                /\ stats.new_articles = Len(returned)
                /\ stats.comments_parsed = CommentsOfRun
                /\ stats.classified = (IF enable_classification THEN Len(hist.batch) ELSE 0)
           ELSE /\ stats.total_fetched = 0
                /\ stats.new_articles = 0
                /\ stats.comments_parsed = 0
                /\ stats.classified = 0

(***************************************************************************)
(* C30: an item whose content fetch ends in failed is persisted as an      *)
(* article record and its id is added to the DedupSet in the run that logs *)
(* it as a failed item, so that no later default run attempts its content  *)
(* fetch again.                                                            *)
(***************************************************************************)
\* the ids of the stories of the run whose content outcome is failed
FailedIds == {stories[i].id : i \in {k \in DOMAIN stories : stories[k].content_type = "failed"}}

\* the run ended in Done and its failed items are in the log
FailedLogged ==
    /\ outcome = "done"
    /\ FailedIds # {}
    /\ failedFile = ValidFile(FailedAtStart \o FailedItems(stories))

\* the ids the failed-item log held when the run started
LoggedAtStart == {FailedAtStart[k].item_id : k \in DOMAIN FailedAtStart}

C30_FailedItemsPersistedNotRetried ==
    /\ FailedLogged =>
          /\ FailedIds \subseteq ItemIds(LoadArticles(articlesFile))
          /\ FailedIds \subseteq LoadCrawledIds(idsFile)
    /\ (skip_existing /\ outcome # "none") => hist.contentFetched \cap LoggedAtStart = {}

====
